---------------------------- MODULE Spec2Model ----------------------------
(***************************************************************************)
(* A model of the Open Author Clock (src/script.js, src/config.js).        *)
(*                                                                         *)
(* Three specifications share this module:                                 *)
(*   SpecTime  getCurrentTime as one call against a local clock, a         *)
(*             configuration and a network response;                       *)
(*   SpecFit   smartTruncateQuote applied to a quote text and a token;     *)
(*   Spec      the application: init, the refresh cycles, the timers and   *)
(*             the display fields.                                         *)
(* JavaScript strings are sequences of one-character strings; times of day *)
(* are seconds since midnight; timer delays are in seconds.                *)
(***************************************************************************)
EXTENDS Integers, Sequences, FiniteSets, TLC

(***************************************************************************)
(* Numbers and strings as JavaScript computes them                         *)
(***************************************************************************)

\* The value Date.prototype.getHours/getMinutes/getSeconds give for an
\* Invalid Date, and every number computed from it.  It lies outside every
\* range a time computation of the program can reach.
NaN == -999999

IsNaN(x) == x = NaN

JsAdd(a, b) == IF IsNaN(a) \/ IsNaN(b) THEN NaN ELSE a + b

JsSub(a, b) == IF IsNaN(a) \/ IsNaN(b) THEN NaN ELSE a - b

JsMul(a, b) == IF IsNaN(a) \/ IsNaN(b) THEN NaN ELSE a * b

\* Math.abs
JsAbs(a) == IF IsNaN(a) THEN NaN ELSE IF a < 0 THEN 0 - a ELSE a

\* a > b: every comparison with NaN is false
JsGt(a, b) == IF IsNaN(a) \/ IsNaN(b) THEN FALSE ELSE a > b

Min(a, b) == IF a < b THEN a ELSE b

Max(a, b) == IF a > b THEN a ELSE b

DigitChar(d) == <<"0", "1", "2", "3", "4", "5", "6", "7", "8", "9">>[d + 1]

RECURSIVE NatToString(_)
NatToString(n) ==
  IF n < 10 THEN <<DigitChar(n)>>
  ELSE NatToString(n \div 10) \o <<DigitChar(n % 10)>>

\* String(n) for the numbers the program formats
JsString(n) ==
  IF IsNaN(n) THEN <<"N", "a", "N">>
  ELSE IF n < 0 THEN <<"-">> \o NatToString(0 - n)
  ELSE NatToString(n)

\* s.padStart(2, '0')
PadStart2(s) == IF Len(s) >= 2 THEN s ELSE IF Len(s) = 1 THEN <<"0">> \o s ELSE <<"0", "0">>

\* `${String(hours).padStart(2, '0')}:${String(minutes).padStart(2, '0')}`
FormatHHMM(hours, minutes) ==
  PadStart2(JsString(hours)) \o <<":">> \o PadStart2(JsString(minutes))

(***************************************************************************)
(* config.timeSync and the clocks                                          *)
(***************************************************************************)

\* { hours, minutes, seconds } of a Date whose time of day is t seconds
TimeData(t) ==
  [hours |-> (t \div 3600) % 24, minutes |-> (t \div 60) % 60, seconds |-> t % 60]

\* the same fields of an Invalid Date
InvalidTimeData == [hours |-> NaN, minutes |-> NaN, seconds |-> NaN]

\* What the network answers to fetch(config.timeSync.webTimeAPI):
\*   reject   fetch rejects (network error)
\*   badjson  response.json() rejects (the body is not JSON)
\*   nullbody the body is the JSON value null: data.datetime throws
\*   nodate   the body is an object without a parseable datetime: Invalid Date
\*   ok       the body carries the time of day `clock`
ResponseKinds == {"reject", "badjson", "nullbody", "nodate", "ok"}

FetchThrows(response) == response.kind \in {"reject", "badjson", "nullbody"}

\* webTimeData, lines 121-127
WebTimeData(response) ==
  IF response.kind = "ok" THEN TimeData(response.clock) ELSE InvalidTimeData

DiscrepancyMinutesBySeconds(systemTimeData, webTimeData) ==
  LET secondsOf(t) == JsAdd(JsMul(JsAdd(JsMul(t.hours, 60), t.minutes), 60), t.seconds)
      d == JsAbs(JsSub(secondsOf(systemTimeData), secondsOf(webTimeData)))
  IN IF IsNaN(d) THEN NaN ELSE d \div 60

\* lines 132-134
DiscrepancyMinutes(systemTimeData, webTimeData) ==
  JsAbs(JsSub(JsAdd(JsMul(systemTimeData.hours, 60), systemTimeData.minutes),
              JsAdd(JsMul(webTimeData.hours, 60), webTimeData.minutes)))

UseWebTimeDataAtLeast(timeSync, systemTimeData, webTimeData) ==
  LET d == JsMul(DiscrepancyMinutes(systemTimeData, webTimeData), 60) IN
  JsGt(d, timeSync.maxDiscrepancySeconds) \/ d = timeSync.maxDiscrepancySeconds

UseWebTimeDataUnlessWithin(timeSync, systemTimeData, webTimeData) ==
  LET d == JsMul(DiscrepancyMinutes(systemTimeData, webTimeData), 60) IN
  ~(~IsNaN(d) /\ d <= timeSync.maxDiscrepancySeconds)

\* line 137
UseWebTimeData(timeSync, systemTimeData, webTimeData) ==
  JsGt(JsMul(DiscrepancyMinutes(systemTimeData, webTimeData), 60),
       timeSync.maxDiscrepancySeconds)

\* What a call of getCurrentTime ends with.  `from` names the return
\* statement taken: "system" (lines 114, 144), "web" (line 139), "fallback"
\* (lines 152-156); a throw (line 159) has none.
Returned(value, from) == [kind |-> "return", value |-> value, from |-> from]

Thrown == [kind |-> "throw", value |-> InvalidTimeData, from |-> "none"]

\* getCurrentTime up to its first suspension (lines 98-119): the local clock
\* is read; with web time disabled the call returns at once, otherwise one
\* network request is issued and the call waits for it.
GetCurrentTimeBegin(timeSync, clock) ==
  [systemTimeData |-> TimeData(clock),
   fetching       |-> timeSync.useWebTime,
   result         |-> Returned(TimeData(clock), "system")]

GetCurrentTimeCatchAlwaysFallsBack(timeSync, clock) ==
  Returned(TimeData(clock), "fallback")

\* the catch block, lines 146-160; clock is the local clock when it runs
GetCurrentTimeCatch(timeSync, clock) ==
  IF timeSync.fallbackToSystemTime THEN Returned(TimeData(clock), "fallback") ELSE Thrown

\* getCurrentTime from the network's answer on (lines 119-160)
GetCurrentTimeResume(timeSync, systemTimeData, response, clock) ==
  IF FetchThrows(response) THEN GetCurrentTimeCatch(timeSync, clock)
  ELSE IF UseWebTimeData(timeSync, systemTimeData, WebTimeData(response))
       THEN Returned(WebTimeData(response), "web")
       ELSE Returned(systemTimeData, "system")

(***************************************************************************)
(* Strings: the String methods smartTruncateQuote and highlightTimeString  *)
(* use.  Indexes are JavaScript's, counted from 0.                         *)
(***************************************************************************)

UpperCaseLetters ==
  <<"A", "B", "C", "D", "E", "F", "G", "H", "I", "J", "K", "L", "M",
    "N", "O", "P", "Q", "R", "S", "T", "U", "V", "W", "X", "Y", "Z">>

LowerCaseLetters ==
  <<"a", "b", "c", "d", "e", "f", "g", "h", "i", "j", "k", "l", "m",
    "n", "o", "p", "q", "r", "s", "t", "u", "v", "w", "x", "y", "z">>

LowerChar(c) ==
  IF \E i \in 1..26 : UpperCaseLetters[i] = c
  THEN LowerCaseLetters[CHOOSE i \in 1..26 : UpperCaseLetters[i] = c]
  ELSE c

\* s.toLowerCase()
ToLowerCase(s) == [i \in 1..Len(s) |-> LowerChar(s[i])]

\* whether t occurs in s at index i
OccursAt(s, t, i) ==
  /\ i >= 0
  /\ i + Len(t) <= Len(s)
  /\ \A k \in 1..Len(t) : s[i + k] = t[k]

SetMin(S) == CHOOSE x \in S : \A y \in S : x <= y

SetMax(S) == CHOOSE x \in S : \A y \in S : x >= y

\* s.indexOf(t, position): the first index, from position on, at which t
\* occurs in s, or -1
IndexOf(s, t, position) ==
  LET at == {i \in Max(position, 0)..(Len(s) - Len(t)) : OccursAt(s, t, i)}
  IN IF at = {} THEN -1 ELSE SetMin(at)

\* s.lastIndexOf(t, position): the last index, up to position, at which t
\* occurs in s, or -1
LastIndexOf(s, t, position) ==
  LET at == {i \in 0..Min(position, Len(s) - Len(t)) : OccursAt(s, t, i)}
  IN IF at = {} THEN -1 ELSE SetMax(at)

\* s.substring(a, b): the arguments are clamped to 0..length and swapped
\* when a > b
Substring(s, a, b) ==
  LET ca == Min(Max(a, 0), Len(s))
      cb == Min(Max(b, 0), Len(s))
  IN SubSeq(s, Min(ca, cb) + 1, Max(ca, cb))

(***************************************************************************)
(* smartTruncateQuote, lines 355-414                                       *)
(***************************************************************************)

\* line 357
maxLength == 120

\* '...', lines 367, 410, 411
Ellipsis == <<".", ".", ".">>

\* the slack of the word-boundary search, lines 396 and 403
BoundarySlack == 15

FitsWholeBelow(quoteText) == Len(quoteText) < maxLength

\* line 359
FitsWhole(quoteText) == Len(quoteText) <= maxLength

\* line 364
TimeIndex(quoteText, timeString) ==
  IndexOf(ToLowerCase(quoteText), ToLowerCase(timeString), 0)

\* lines 370-391: the window of at most maxLength characters around the
\* token found at timeIndex
IdealWindow(quoteText, timeString, timeIndex) ==
  LET length == Len(quoteText)
      timeLength == Len(timeString)
      start1 == Max(0, timeIndex - ((maxLength - timeLength) \div 2))
      end1 == Min(length, start1 + maxLength)
      hitEnd == end1 = length /\ length > maxLength
      start2 == IF hitEnd THEN Max(0, length - maxLength) ELSE start1
      end2 == IF hitEnd THEN length ELSE end1
      hitStart == start2 = 0 /\ length > maxLength
      end3 == IF hitStart THEN Min(length, maxLength) ELSE end2
      end4 == IF end3 - start2 > maxLength THEN start2 + maxLength ELSE end3
  IN [startIndex |-> start2, endIndex |-> end4]

SnapStartOnSpace(quoteText, startIndex) ==
  IF startIndex > 0
  THEN LET spaceIndex == IndexOf(quoteText, <<" ">>, startIndex)
       IN IF spaceIndex # -1 /\ spaceIndex < startIndex + BoundarySlack
          THEN spaceIndex
          ELSE startIndex
  ELSE startIndex

\* lines 394-399
SnapStart(quoteText, startIndex) ==
  IF startIndex > 0
  THEN LET spaceIndex == IndexOf(quoteText, <<" ">>, startIndex)
       IN IF spaceIndex # -1 /\ spaceIndex < startIndex + BoundarySlack
          THEN spaceIndex + 1
          ELSE startIndex
  ELSE startIndex

SnapEndForward(quoteText, endIndex) ==
  IF endIndex < Len(quoteText)
  THEN LET spaceIndex == IndexOf(quoteText, <<" ">>, endIndex)
       IN IF spaceIndex # -1 /\ spaceIndex < endIndex + BoundarySlack
          THEN spaceIndex
          ELSE endIndex
  ELSE endIndex

\* lines 401-406
SnapEnd(quoteText, endIndex) ==
  IF endIndex < Len(quoteText)
  THEN LET spaceIndex == LastIndexOf(quoteText, <<" ">>, endIndex)
       IN IF spaceIndex # -1 /\ spaceIndex > endIndex - BoundarySlack
          THEN spaceIndex
          ELSE endIndex
  ELSE endIndex

\* startIndex and endIndex as they stand at line 408, for a text that does
\* not fit whole and holds the token
KeptWindow(quoteText, timeString) ==
  LET w == IdealWindow(quoteText, timeString, TimeIndex(quoteText, timeString))
  IN [startIndex |-> SnapStart(quoteText, w.startIndex),
      endIndex   |-> SnapEnd(quoteText, w.endIndex)]

WindowTextAlwaysContinued(quoteText, w) ==
  (IF w.startIndex > 0 THEN Ellipsis ELSE <<>>)
    \o Substring(quoteText, w.startIndex, w.endIndex)
    \o Ellipsis

\* lines 408-413
WindowText(quoteText, w) ==
  (IF w.startIndex > 0 THEN Ellipsis ELSE <<>>)
    \o Substring(quoteText, w.startIndex, w.endIndex)
    \o (IF w.endIndex < Len(quoteText) THEN Ellipsis ELSE <<>>)

\* lines 355-414
smartTruncateQuote(quoteText, timeString) ==
  IF FitsWhole(quoteText) THEN quoteText
  ELSE IF TimeIndex(quoteText, timeString) = -1
       THEN Substring(quoteText, 0, maxLength - 3) \o Ellipsis
       ELSE WindowText(quoteText, KeptWindow(quoteText, timeString))

(***************************************************************************)
(* highlightTimeString, lines 416-421                                      *)
(***************************************************************************)

\* the replacement of every match, '<strong>$1</strong>'; each marker is one
\* element of the result
StrongOpen == "<strong>"

StrongClose == "</strong>"

\* the matches of the global, case-insensitive, escaped pattern from index
\* `from` on, each wrapped, the text between them kept
RECURSIVE HighlightFrom(_, _, _)
HighlightFrom(quoteText, timeString, from) ==
  LET i == IndexOf(ToLowerCase(quoteText), ToLowerCase(timeString), from) IN
  IF i = -1 THEN Substring(quoteText, from, Len(quoteText))
  ELSE Substring(quoteText, from, i)
         \o <<StrongOpen>> \o Substring(quoteText, i, i + Len(timeString)) \o <<StrongClose>>
         \o HighlightFrom(quoteText, timeString, i + Len(timeString))

\* an empty timeString gives the pattern (), which matches the empty string
\* at every index of the text, its end included
RECURSIVE HighlightEmptyFrom(_, _)
HighlightEmptyFrom(quoteText, from) ==
  <<StrongOpen, StrongClose>>
    \o (IF from < Len(quoteText)
        THEN <<quoteText[from + 1]>> \o HighlightEmptyFrom(quoteText, from + 1)
        ELSE <<>>)

RECURSIVE HighlightCaseSensitiveFrom(_, _, _)
HighlightCaseSensitiveFrom(quoteText, timeString, from) ==
  LET i == IndexOf(quoteText, timeString, from) IN
  IF i = -1 THEN Substring(quoteText, from, Len(quoteText))
  ELSE Substring(quoteText, from, i)
         \o <<StrongOpen>> \o Substring(quoteText, i, i + Len(timeString)) \o <<StrongClose>>
         \o HighlightCaseSensitiveFrom(quoteText, timeString, i + Len(timeString))

highlightTimeStringCaseSensitive(quoteText, timeString) ==
  HighlightCaseSensitiveFrom(quoteText, timeString, 0)

\* lines 416-421
highlightTimeString(quoteText, timeString) ==
  IF timeString = <<>> THEN HighlightEmptyFrom(quoteText, 0)
  ELSE HighlightFrom(quoteText, timeString, 0)

(***************************************************************************)
(* findQuoteForCurrentTime, lines 174-182                                  *)
(***************************************************************************)

CurrentTimeStringUnpadded(time) ==
  JsString(time.hours) \o <<":">> \o JsString(time.minutes)

\* line 176
CurrentTimeString(time) == FormatHHMM(time.hours, time.minutes)

\* line 179, quotes.find(q => q.time === currentTimeString): the index of
\* the record found, counted from 1, or 0 for undefined
FindQuote(table, currentTimeString) ==
  LET found == {i \in 1..Len(table) : table[i].time = currentTimeString}
  IN IF found = {} THEN 0 ELSE SetMin(found)

(***************************************************************************)
(* loadQuotes, lines 72-84                                                 *)
(***************************************************************************)

LoadQuotesNeverThrows(answer) == FALSE

\* lines 74-83: fetch rejects, the response is not ok, or its body is not
\* JSON; the catch block throws the error again
LoadQuotesThrows(answer) == answer.kind # "ok"

(***************************************************************************)
(* The state                                                               *)
(***************************************************************************)

\* SpecTime
VARIABLES
  tcfg,    \* config.timeSync
  tclock,  \* the local clock, seconds since midnight
  tcall    \* the call: its position, what it read, what it returned

timeVars == <<tcfg, tclock, tcall>>

\* SpecFit
VARIABLES
  ftext,   \* quoteText
  ftoken,  \* timeString
  fcall    \* the call: its position, its result, its window

fitVars == <<ftext, ftoken, fcall>>

\* Spec: the application
VARIABLES
  cfg,        \* config.timeSync
  skew,       \* the network clock minus the local clock, in seconds
  now,        \* the local clock, seconds since midnight
  load,       \* the dataset request: how many were sent, the answer, its data
  quotes,     \* the module's quotes array
  display,    \* the display fields
  tasks,      \* the suspended async calls, in the order they were suspended
  timers,     \* the pending timers, in the order they were registered
  cycles,     \* how many calls of updateQuote have started
  unhandled,  \* the async calls that ended in an unhandled rejection
  started,    \* the local clock when the page was loaded
  delays,     \* how often the clock advanced while a request was pending
  weather,    \* the weather requests: how many were sent, when the interval
              \* was set, how the last one answered was answered
  alignment   \* the time setupPreciseMinuteTiming resolved: where it came
              \* from, its seconds, how long resolving it took, when it ended

appVars == <<cfg, skew, now, load, quotes, display, tasks, timers, cycles,
             unhandled, started, delays, weather, alignment>>

vars == <<timeVars, fitVars, appVars>>

(***************************************************************************)
(* SpecTime: one call of getCurrentTime                                    *)
(***************************************************************************)

\* the longest the network request is left pending, in seconds
MaxLatency == 2

Thresholds == {30, 60, 120}

TimeSyncConfigs ==
  [useWebTime : BOOLEAN, fallbackToSystemTime : BOOLEAN,
   maxDiscrepancySeconds : Thresholds]

\* 12:00:00, 12:00:50, 23:59:30, 00:00:10
LocalClocks == {43200, 43250, 86370, 10}

\* how far the network's clock is from the local one, in seconds
Skews == {-300, -60, -45, -15, 0, 15, 20, 45, 60, 120, 300}

WrapDay(t) == (t + 86400) % 86400

Responses(clock) ==
  [kind : ResponseKinds \ {"ok"}, clock : {0}]
    \cup [kind : {"ok"}, clock : {WrapDay(clock + d) : d \in Skews}]

NoResponse == [kind |-> "none", clock |-> 0]

IdleCall ==
  [pc |-> "idle", systemTimeData |-> InvalidTimeData, requests |-> 0,
   waited |-> 0, response |-> NoResponse, result |-> Thrown]

IdleTime == tcfg = [useWebTime |-> FALSE, fallbackToSystemTime |-> TRUE,
                    maxDiscrepancySeconds |-> 30]
            /\ tclock = 0 /\ tcall = IdleCall

InitTime ==
  /\ tcfg \in TimeSyncConfigs
  /\ tclock \in LocalClocks
  /\ tcall = IdleCall

\* getCurrentTime is called: lines 98-119
TimeCall ==
  /\ tcall.pc = "idle"
  /\ LET b == GetCurrentTimeBegin(tcfg, tclock) IN
       tcall' = [tcall EXCEPT !.pc = IF b.fetching THEN "fetching" ELSE "done",
                              !.systemTimeData = b.systemTimeData,
                              !.requests = IF b.fetching THEN 1 ELSE 0,
                              !.result = IF b.fetching THEN tcall.result ELSE b.result]
  /\ UNCHANGED <<tcfg, tclock>>
  /\ UNCHANGED <<fitVars, appVars>>

\* the local clock advances while the request is pending
TimePass ==
  /\ tcall.pc = "fetching"
  /\ tcall.waited < MaxLatency
  /\ tclock' = WrapDay(tclock + 1)
  /\ tcall' = [tcall EXCEPT !.waited = @ + 1]
  /\ UNCHANGED tcfg
  /\ UNCHANGED <<fitVars, appVars>>

\* the network answers and the call runs to its end: lines 119-160
TimeAnswer ==
  /\ tcall.pc = "fetching"
  /\ \E r \in Responses(tclock) :
       tcall' = [tcall EXCEPT
                   !.pc = "done",
                   !.response = r,
                   !.result = GetCurrentTimeResume(tcfg, tcall.systemTimeData, r, tclock)]
  /\ UNCHANGED <<tcfg, tclock>>
  /\ UNCHANGED <<fitVars, appVars>>

NextTime == TimeCall \/ TimePass \/ TimeAnswer

(***************************************************************************)
(* SpecFit: smartTruncateQuote applied to one quote                        *)
(***************************************************************************)

\* the longest text is maxLength + MaxExtra characters long
MaxExtra == 40

\* a quote that fits whole (87 characters), with its token "9:41"
ExampleQuote ==
  <<"A", " ", "m", "a", "n", " ", "w", "h", "o", " ", "d", "a",
    "r", "e", "s", " ", "t", "o", " ", "w", "a", "s", "t", "e",
    " ", "o", "n", "e", " ", "h", "o", "u", "r", " ", "o", "f",
    " ", "t", "i", "m", "e", " ", "h", "a", "s", " ", "n", "o",
    "t", " ", "d", "i", "s", "c", "o", "v", "e", "r", "e", "d",
    " ", "t", "h", "e", " ", "v", "a", "l", "u", "e", " ", "o",
    "f", " ", "l", "i", "f", "e", " ", "a", "t", " ", "0", "9",
    ":", "4", "1">>

\* a text of n characters: words of x separated by one space every `period`
\* characters (none when period is 0), with `word` written over it at index
\* `at` (nowhere when at is -1)
MakeText(n, period, word, at) ==
  [i \in 1..n |->
     IF at >= 0 /\ i > at /\ i <= at + Len(word) THEN word[i - at]
     ELSE IF period > 0 /\ i % period = 0 THEN " "
     ELSE "x"]

\* a token of n characters with a space after every fourth character
LongToken(n) == [i \in 1..n |-> IF i % 5 = 0 THEN " " ELSE "t"]

\* the token as the text holds it, and as timeString gives it
Tokens ==
  { [inText |-> <<"9", ":", "4", "1">>, timeString |-> <<"9", ":", "4", "1">>],
    [inText |-> <<"N", "o", "o", "n">>, timeString |-> <<"n", "o", "o", "n">>],
    [inText |-> <<"t", "e", "n", " ", "t", "o", " ", "s", "i", "x">>,
     timeString |-> <<"T", "e", "n", " ", "t", "o", " ", "s", "i", "x">>] }
    \cup { [inText |-> LongToken(n), timeString |-> LongToken(n)] : n \in {93, 104, 125} }
    \cup { \* the token's "." stands where the text has another character
           [inText |-> <<"9", ":", "4", "1">>, timeString |-> <<"9", ".", "4", "1">>],
           \* the token twice, in two letter cases
           [inText |-> <<"n", "o", "o", "n", " ", "N", "O", "O", "N">>,
            timeString |-> <<"N", "o", "o", "n">>],
           \* two occurrences of the token that share characters
           [inText |-> <<"1", "1", ":", "1", "1", ":", "1", "1">>,
            timeString |-> <<"1", "1", ":", "1", "1">>] }

TextLengths == {maxLength - 1, maxLength, maxLength + 1, maxLength + 7, maxLength + MaxExtra}

Periods == {0, 4, 9, 17}

FitInputs ==
  { [text |-> ExampleQuote, timeString |-> <<"9", ":", "4", "1">>] }
    \cup { [text |-> MakeText(n, p, t.inText, at), timeString |-> t.timeString] :
             n \in TextLengths, p \in Periods, t \in Tokens, at \in -1..(maxLength + MaxExtra) }

NoWindow == [startIndex |-> 0, endIndex |-> 0]

IdleFitCall ==
  [pc |-> "idle", result |-> <<>>, timeIndex |-> -1, window |-> NoWindow,
   highlighted |-> <<>>]

IdleFit == ftext = <<>> /\ ftoken = <<>> /\ fcall = IdleFitCall

InitFit ==
  /\ \E input \in FitInputs : ftext = input.text /\ ftoken = input.timeString
  /\ fcall = IdleFitCall

\* smartTruncateQuote(ftext, ftoken) runs; the window is recorded when the
\* text is cut around the token
FitCall ==
  /\ fcall.pc = "idle"
  /\ fcall' = [pc |-> "done",
               result |-> smartTruncateQuote(ftext, ftoken),
               timeIndex |-> TimeIndex(ftext, ftoken),
               window |-> IF ~FitsWhole(ftext) /\ TimeIndex(ftext, ftoken) # -1
                          THEN KeptWindow(ftext, ftoken)
                          ELSE NoWindow,
               highlighted |-> <<>>]
  /\ UNCHANGED <<ftext, ftoken>>
  /\ UNCHANGED <<timeVars, appVars>>

\* highlightTimeString(ftext, ftoken) runs
HighlightCall ==
  /\ fcall.pc = "idle"
  /\ fcall' = [fcall EXCEPT !.pc = "highlighted",
                            !.highlighted = highlightTimeString(ftext, ftoken)]
  /\ UNCHANGED <<ftext, ftoken>>
  /\ UNCHANGED <<timeVars, appVars>>

NextFit == FitCall \/ HighlightCall

(***************************************************************************)
(* Spec: the application.  Times are in seconds: a delay of d ms is d/1000. *)
(* An async call suspended at an await is a task; a task whose awaited     *)
(* promise is already settled (getCurrentTime with web time disabled) runs *)
(* on as a microtask, before any timer or network answer is handled.       *)
(***************************************************************************)

\* config.fadeOutDuration, 1000 ms
fadeOutDuration == 1

\* the period of setInterval(updateQuote, 60000), line 30
quoteInterval == 60

\* config.weatherUpdateInterval, 600000 ms
weatherUpdateInterval == 600

\* the clock stops MaxRun seconds after the start with web time enabled, and
\* MaxRunLocal seconds after it with web time disabled
MaxRun == 65

MaxRunLocal == 665

\* how many times in a run the clock may advance while a network request is
\* pending
MaxDelays == 2

\* the local clock when the page is loaded: 09:40:59, and with web time
\* disabled 09:41:30 as well
StartClocks(c) == IF c.useWebTime THEN {34859} ELSE {34859, 34890}

AppSkews == {0, 310}

AppConfigs ==
  { c \in [useWebTime : BOOLEAN, fallbackToSystemTime : BOOLEAN,
           maxDiscrepancySeconds : {30}] :
      ~c.useWebTime => c.fallbackToSystemTime }

Quote(time, quote, timeString, title, author) ==
  [time |-> time, quote |-> quote, timeString |-> timeString,
   title |-> title, author |-> author]

\* what data.json may hold: a table with two records for 09:41, a record
\* whose time is not zero-padded, a record whose quote is over the budget,
\* and an empty table
Datasets ==
  { << Quote(<<"0", "9", ":", "4", "1">>, <<"a", "t", " ", "9", ":", "4", "1", " ", "a", "m">>,
             <<"9", ":", "4", "1">>, "T1", "A1"),
       Quote(<<"0", "9", ":", "4", "1">>, <<"N", "i", "n", "e", " ", "f", "o", "r", "t", "y", "-", "o", "n", "e">>,
             <<"n", "i", "n", "e">>, "T2", "A2"),
       Quote(<<"9", ":", "4", "2">>, <<"9", ":", "4", "2", " ", "s", "h", "a", "r", "p">>,
             <<"9", ":", "4", "2">>, "T3", "A3"),
       Quote(<<"0", "9", ":", "4", "3">>, MakeText(maxLength + 10, 6, <<"9", ":", "4", "3">>, 100),
             <<"9", ":", "4", "3">>, "T4", "A4"),
       Quote(<<"0", "9", ":", "4", "6">>, <<"b", "y", " ", "9", ":", "4", "6">>,
             <<"9", ":", "4", "6">>, "T5", "A5") >>,
    << >> }

LoadAnswers ==
  [kind : {"ok"}, data : Datasets]
    \cup [kind : {"http404", "reject", "badjson"}, data : {<< >>}]

\* the network's answers to the time request of the application
AppResponses ==
  { [kind |-> "reject", clock |-> 0], [kind |-> "nodate", clock |-> 0],
    [kind |-> "ok", clock |-> WrapDay(now + skew)] }

WeatherAnswers == {"ok", "reject", "notok", "nodata"}

WeatherFailsOnReject(answer) == answer = "reject"

\* updateWeatherDisplay, lines 271-287: the answers that end in the catch block
WeatherFails(answer) == answer \in {"reject", "notok", "nodata"}

NoWeather == [requests |-> 0, intervalSet |-> -1, answer |-> "none"]

NoAlignment == [from |-> "none", seconds |-> 0, latency |-> 0, setAt |-> -1]

\* the seconds since midnight of a time the local clock gave
SecondsOfDay(time) == time.hours * 3600 + time.minutes * 60 + time.seconds

SetupDelayWithinMinute(seconds) == (60 - seconds) % 60

\* line 23, in seconds
SetupDelay(seconds) == 60 - seconds

InitialDisplay ==
  [container |-> "clock",
   quote     |-> [kind |-> "initial", html |-> << >>, cycle |-> 0],
   author    |-> [kind |-> "initial", title |-> "", author |-> ""],
   datetime  |-> [kind |-> "initial", timeStr |-> << >>],
   weather   |-> "initial",
   opacity   |-> 1]

\* a call suspended at the await of site `at`
Task(at, id, byInit, resolved, matched, systemTimeData, fetching) ==
  [at |-> at, id |-> id, byInit |-> byInit, resolved |-> resolved,
   matched |-> matched, systemTimeData |-> systemTimeData,
   fetching |-> fetching]

\* a call that has called getCurrentTime and awaits it
TimeTask(at, id, byInit, resolved, matched) ==
  LET b == GetCurrentTimeBegin(cfg, now) IN
  Task(at, id, byInit, resolved, matched, b.systemTimeData, b.fetching)

\* a call that awaits a fetch of its own
FetchTask(at) == Task(at, 0, FALSE, InvalidTimeData, 0, InvalidTimeData, TRUE)

Timer(kind, due, id, resolved, matched) ==
  [kind |-> kind, due |-> due, id |-> id, resolved |-> resolved, matched |-> matched]

Without(seq, i) == SubSeq(seq, 1, i - 1) \o SubSeq(seq, i + 1, Len(seq))

MicrotaskPending == \E i \in 1..Len(tasks) : ~tasks[i].fetching

\* the task may run on: a microtask at once, a network answer only when no
\* microtask is left
MayResume(i, at) ==
  /\ i \in 1..Len(tasks)
  /\ tasks[i].at = at
  /\ tasks[i].fetching => ~MicrotaskPending

\* what the awaited getCurrentTime ends with
TimeResults(t) ==
  IF t.fetching
  THEN {GetCurrentTimeResume(cfg, t.systemTimeData, r, now) : r \in AppResponses}
  ELSE {Returned(t.systemTimeData, "system")}

\* updateDateTimeDisplay from its await on, lines 335-353
DateTimeField(r) ==
  IF r.kind = "return"
  THEN [kind |-> "time", timeStr |-> FormatHHMM(r.value.hours, r.value.minutes)]
  ELSE [kind |-> "timeUnavailable", timeStr |-> << >>]

\* the double quotation mark the quote area's text begins and ends with
QuotationMark == "''"

\* displayError, lines 474-484
DisplayError(d) == [d EXCEPT !.container = "error"]

QuoteShownUnfitted(d, q, cycle) ==
  [d EXCEPT
     !.quote = [kind |-> "quote", cycle |-> cycle,
                html |-> <<QuotationMark>>
                           \o highlightTimeString(q.quote, q.timeString)
                           \o <<QuotationMark>>],
     !.author = [kind |-> "source", title |-> q.title, author |-> q.author]]

\* lines 455-458; cycle is the call of updateQuote that writes
QuoteShown(d, q, cycle) ==
  [d EXCEPT
     !.quote = [kind |-> "quote", cycle |-> cycle,
                html |-> <<QuotationMark>>
                           \o highlightTimeString(smartTruncateQuote(q.quote, q.timeString),
                                                  q.timeString)
                           \o <<QuotationMark>>],
     !.author = [kind |-> "source", title |-> q.title, author |-> q.author]]

\* lines 448-451
NoQuoteShown(d, time, cycle) ==
  [d EXCEPT
     !.quote = [kind |-> "noQuote", cycle |-> cycle,
                html |-> <<QuotationMark, "No quote found for", " ", StrongOpen>>
                           \o FormatHHMM(time.hours, time.minutes)
                           \o <<StrongClose, ".", ".", ".", QuotationMark>>],
     !.author = [kind |-> "noSource", title |-> "", author |-> ""]]

InitApp ==
  /\ cfg \in AppConfigs
  /\ skew \in (IF cfg.useWebTime THEN AppSkews ELSE {0})
  /\ now \in StartClocks(cfg)
  /\ load = [status |-> "pending", requests |-> 1, data |-> << >>]
  /\ quotes = << >>
  /\ display = InitialDisplay
  /\ tasks = << FetchTask("loadQuotes") >>
  /\ timers = << >>
  /\ cycles = 0
  /\ unhandled = {}
  /\ started = now
  /\ delays = 0
  /\ weather = NoWeather
  /\ alignment = NoAlignment

IdleApp ==
  /\ cfg = [useWebTime |-> FALSE, fallbackToSystemTime |-> TRUE,
            maxDiscrepancySeconds |-> 30]
  /\ skew = 0 /\ now = 0
  /\ load = [status |-> "pending", requests |-> 0, data |-> << >>]
  /\ quotes = << >> /\ display = InitialDisplay
  /\ tasks = << >> /\ timers = << >> /\ cycles = 0 /\ unhandled = {}
  /\ started = 0 /\ delays = 0 /\ weather = NoWeather /\ alignment = NoAlignment

\* init, lines 38-49 and 63-66: the dataset request is answered.  A failed
\* load ends init in its catch block; otherwise init goes on to its first
\* updateDateTimeDisplay.
LoadQuotesAnswer ==
  \E i \in 1..Len(tasks), answer \in LoadAnswers :
    /\ MayResume(i, "loadQuotes")
    /\ load' = [load EXCEPT !.status = answer.kind, !.data = answer.data]
    /\ IF LoadQuotesThrows(answer)
       THEN /\ display' = DisplayError(display)
            /\ tasks' = Without(tasks, i)
            /\ UNCHANGED quotes
       ELSE /\ quotes' = answer.data
            /\ tasks' = Without(tasks, i)
                          \o << TimeTask("init.updateDateTimeDisplay", 0, TRUE,
                                         InvalidTimeData, 0) >>
            /\ UNCHANGED display
    /\ UNCHANGED <<alignment, weather, cfg, skew, now, timers, cycles, unhandled, started, delays>>
    /\ UNCHANGED <<timeVars, fitVars>>

\* init, lines 49-56: the datetime field is written, updateWeatherDisplay
\* shows its loading state and sends its request, updateQuote is called
InitDateTimeResumes ==
  \E i \in 1..Len(tasks) :
    /\ MayResume(i, "init.updateDateTimeDisplay")
    /\ \E r \in TimeResults(tasks[i]) :
         /\ display' = [display EXCEPT !.datetime = DateTimeField(r),
                                       !.weather = "loading"]
         /\ tasks' = Without(tasks, i)
                       \o << FetchTask("updateWeatherDisplay"),
                             TimeTask("findQuoteForCurrentTime", cycles + 1, TRUE,
                                      InvalidTimeData, 0) >>
         /\ cycles' = cycles + 1
    /\ weather' = [weather EXCEPT !.requests = @ + 1]
    /\ UNCHANGED <<alignment, cfg, skew, now, load, quotes, timers, unhandled, started, delays>>
    /\ UNCHANGED <<timeVars, fitVars>>

\* updateQuote, lines 427-438: the time of the lookup is resolved, the quote
\* is looked up and updateDateTimeDisplay is called.  A failed resolution
\* rejects updateQuote: init's catch block shows the error when init awaits
\* it (line 56), otherwise nothing handles it.
FindQuoteResumes ==
  \E i \in 1..Len(tasks) :
    /\ MayResume(i, "findQuoteForCurrentTime")
    /\ \E r \in TimeResults(tasks[i]) :
         IF r.kind = "throw"
         THEN /\ tasks' = Without(tasks, i)
              /\ display' = IF tasks[i].byInit THEN DisplayError(display) ELSE display
              /\ unhandled' = IF tasks[i].byInit THEN unhandled
                              ELSE unhandled \cup {"updateQuote"}
         ELSE /\ tasks' = Without(tasks, i)
                            \o << TimeTask("updateQuote.updateDateTimeDisplay",
                                           tasks[i].id, tasks[i].byInit, r.value,
                                           FindQuote(quotes, CurrentTimeString(r.value))) >>
              /\ UNCHANGED <<display, unhandled>>
    /\ UNCHANGED <<alignment, weather, cfg, skew, now, load, quotes, timers, cycles, started, delays>>
    /\ UNCHANGED <<timeVars, fitVars>>

\* updateQuote, lines 438-444 and 468: the datetime field is written, the
\* quote and author areas are hidden and the render is set to run after
\* fadeOutDuration.  When init awaited the call, init goes on (lines 59-62):
\* setupPreciseMinuteTiming is called and the weather interval is set.
CycleDateTimeResumes ==
  \E i \in 1..Len(tasks) :
    /\ MayResume(i, "updateQuote.updateDateTimeDisplay")
    /\ \E r \in TimeResults(tasks[i]) :
         LET t == tasks[i] IN
         /\ display' = [display EXCEPT !.datetime = DateTimeField(r), !.opacity = 0]
         /\ tasks' = Without(tasks, i)
                       \o (IF t.byInit
                           THEN << TimeTask("setupPreciseMinuteTiming", 0, FALSE,
                                            InvalidTimeData, 0) >>
                           ELSE << >>)
         /\ timers' = timers
                       \o << Timer("fade", now + fadeOutDuration, t.id, t.resolved, t.matched) >>
                       \o (IF t.byInit
                           THEN << Timer("weather", now + weatherUpdateInterval, 0,
                                         InvalidTimeData, 0) >>
                           ELSE << >>)
         /\ weather' = IF t.byInit THEN [weather EXCEPT !.intervalSet = now] ELSE weather
    /\ UNCHANGED <<alignment, cfg, skew, now, load, quotes, cycles, unhandled, started, delays>>
    /\ UNCHANGED <<timeVars, fitVars>>

\* setupPreciseMinuteTiming, lines 20-31: the one-shot timer is set to the
\* next minute of the resolved time; a failed resolution is handled nowhere
SetupTimingResumes ==
  \E i \in 1..Len(tasks) :
    /\ MayResume(i, "setupPreciseMinuteTiming")
    /\ \E r \in TimeResults(tasks[i]) :
         IF r.kind = "throw"
         THEN /\ unhandled' = unhandled \cup {"setupPreciseMinuteTiming"}
              /\ UNCHANGED <<timers, alignment>>
         ELSE /\ timers' = timers
                            \o << Timer("first", now + SetupDelay(r.value.seconds), 0,
                                        InvalidTimeData, 0) >>
              /\ alignment' = [from |-> r.from, seconds |-> r.value.seconds,
                               latency |-> now - SecondsOfDay(tasks[i].systemTimeData),
                               setAt |-> now]
              /\ UNCHANGED unhandled
    /\ tasks' = Without(tasks, i)
    /\ UNCHANGED <<weather, cfg, skew, now, load, quotes, display, cycles, started, delays>>
    /\ UNCHANGED <<timeVars, fitVars>>

\* the timer that runs next: among the timers that are due, the one due
\* first, and of those the one registered first
NextTimer(i) ==
  /\ i \in 1..Len(timers)
  /\ timers[i].due <= now
  /\ \A j \in 1..Len(timers) :
       \/ timers[j].due > timers[i].due
       \/ (timers[j].due = timers[i].due /\ j >= i)

\* a timer callback is a task of its own: it runs when no microtask is left
TimerFires(i, kind) ==
  /\ ~MicrotaskPending
  /\ NextTimer(i)
  /\ timers[i].kind = kind

\* lines 28-31: the one-shot timer runs updateQuote and sets the interval
FirstTimerFires ==
  \E i \in 1..Len(timers) :
    /\ TimerFires(i, "first")
    /\ tasks' = tasks \o << TimeTask("findQuoteForCurrentTime", cycles + 1, FALSE,
                                     InvalidTimeData, 0) >>
    /\ cycles' = cycles + 1
    /\ timers' = Without(timers, i)
                   \o << Timer("interval", now + quoteInterval, 0, InvalidTimeData, 0) >>
    /\ UNCHANGED <<alignment, weather, cfg, skew, now, load, quotes, display, unhandled, started, delays>>
    /\ UNCHANGED <<timeVars, fitVars>>

\* line 30: the interval runs updateQuote and comes due again a period later
QuoteIntervalFires ==
  \E i \in 1..Len(timers) :
    /\ TimerFires(i, "interval")
    /\ tasks' = tasks \o << TimeTask("findQuoteForCurrentTime", cycles + 1, FALSE,
                                     InvalidTimeData, 0) >>
    /\ cycles' = cycles + 1
    /\ timers' = Without(timers, i)
                   \o << Timer("interval", timers[i].due + quoteInterval, 0,
                               InvalidTimeData, 0) >>
    /\ UNCHANGED <<alignment, weather, cfg, skew, now, load, quotes, display, unhandled, started, delays>>
    /\ UNCHANGED <<timeVars, fitVars>>

\* line 62 and lines 260-269: the weather interval runs updateWeatherDisplay
WeatherIntervalFires ==
  \E i \in 1..Len(timers) :
    /\ TimerFires(i, "weather")
    /\ display' = [display EXCEPT !.weather = "loading"]
    /\ tasks' = tasks \o << FetchTask("updateWeatherDisplay") >>
    /\ timers' = Without(timers, i)
                   \o << Timer("weather", timers[i].due + weatherUpdateInterval, 0,
                               InvalidTimeData, 0) >>
    /\ weather' = [weather EXCEPT !.requests = @ + 1]
    /\ UNCHANGED <<alignment, cfg, skew, now, load, quotes, cycles, unhandled, started, delays>>
    /\ UNCHANGED <<timeVars, fitVars>>

\* lines 444-468: the render.  With a quote it is written and both areas are
\* shown again; without one the time of the message is resolved first.
FadeTimerFires ==
  \E i \in 1..Len(timers) :
    /\ TimerFires(i, "fade")
    /\ LET f == timers[i] IN
       IF f.matched = 0
       THEN /\ tasks' = tasks \o << TimeTask("noQuote.getCurrentTime", f.id, FALSE,
                                             f.resolved, 0) >>
            /\ UNCHANGED display
       ELSE /\ display' = [QuoteShown(display, quotes[f.matched], f.id) EXCEPT !.opacity = 1]
            /\ UNCHANGED tasks
    /\ timers' = Without(timers, i)
    /\ UNCHANGED <<alignment, weather, cfg, skew, now, load, quotes, cycles, unhandled, started, delays>>
    /\ UNCHANGED <<timeVars, fitVars>>

\* lines 447-467: the no-quote message is written with the time just
\* resolved and both areas are shown again; a failed resolution ends the
\* callback before it writes or shows anything
NoQuoteTimeResumes ==
  \E i \in 1..Len(tasks) :
    /\ MayResume(i, "noQuote.getCurrentTime")
    /\ \E r \in TimeResults(tasks[i]) :
         IF r.kind = "throw"
         THEN /\ unhandled' = unhandled \cup {"render"}
              /\ UNCHANGED display
         ELSE /\ display' = [NoQuoteShown(display, r.value, tasks[i].id) EXCEPT !.opacity = 1]
              /\ UNCHANGED unhandled
    /\ tasks' = Without(tasks, i)
    /\ UNCHANGED <<alignment, weather, cfg, skew, now, load, quotes, timers, cycles, started, delays>>
    /\ UNCHANGED <<timeVars, fitVars>>

\* updateWeatherDisplay, lines 269-291: the weather request is answered
WeatherAnswer ==
  \E i \in 1..Len(tasks), answer \in WeatherAnswers :
    /\ MayResume(i, "updateWeatherDisplay")
    /\ display' = [display EXCEPT
                     !.weather = IF WeatherFails(answer) THEN "weatherUnavailable"
                                 ELSE "shown"]
    /\ weather' = [weather EXCEPT !.answer = IF answer = "ok" THEN "ok" ELSE "failed"]
    /\ tasks' = Without(tasks, i)
    /\ UNCHANGED <<alignment, cfg, skew, now, load, quotes, timers, cycles, unhandled, started, delays>>
    /\ UNCHANGED <<timeVars, fitVars>>

NoTimerDue == \A j \in 1..Len(timers) : timers[j].due > now

ClockStops == started + (IF cfg.useWebTime THEN MaxRun ELSE MaxRunLocal)

\* the clock may advance: nothing is left to run at this instant and, with a
\* request pending, the run has delays left
MayWait ==
  /\ ~MicrotaskPending
  /\ NoTimerDue
  /\ tasks # << >> => delays < MaxDelays

Delayed == IF tasks # << >> THEN delays + 1 ELSE delays

\* a second passes while a network request is pending
SecondPasses ==
  /\ MayWait
  /\ tasks # << >>
  /\ now + 1 <= ClockStops
  /\ now' = now + 1
  /\ delays' = Delayed
  /\ UNCHANGED <<alignment, weather, cfg, skew, load, quotes, display, tasks, timers, cycles, unhandled, started>>
  /\ UNCHANGED <<timeVars, fitVars>>

\* nothing happens until the next timer is due
NextTimerComesDue ==
  /\ MayWait
  /\ timers # << >>
  /\ LET due == SetMin({timers[j].due : j \in 1..Len(timers)}) IN
       /\ due <= ClockStops
       /\ now' = due
  /\ delays' = Delayed
  /\ UNCHANGED <<alignment, weather, cfg, skew, load, quotes, display, tasks, timers, cycles, unhandled, started>>
  /\ UNCHANGED <<timeVars, fitVars>>

NextApp ==
  \/ LoadQuotesAnswer
  \/ InitDateTimeResumes
  \/ FindQuoteResumes
  \/ CycleDateTimeResumes
  \/ SetupTimingResumes
  \/ FirstTimerFires
  \/ QuoteIntervalFires
  \/ WeatherIntervalFires
  \/ FadeTimerFires
  \/ NoQuoteTimeResumes
  \/ WeatherAnswer
  \/ SecondPasses
  \/ NextTimerComesDue

TimeDone == tcall.pc = "done"

\* the network request of the call failed: fetch or response.json() rejected,
\* or the body held no object to read a datetime from
TimeFetchFailed == tcall.response.kind \in {"reject", "badjson", "nullbody"}

\* the network request of the call was answered with a body that was read
TimeFetchSucceeded == tcall.response.kind \in {"nodate", "ok"}

LocalMinutesOfDay == tcall.systemTimeData.hours * 60 + tcall.systemTimeData.minutes

LocalSecondsOfDay == LocalMinutesOfDay * 60 + tcall.systemTimeData.seconds

NetworkMinutesOfDay == tcall.response.clock \div 60

NetworkSecondsOfDay == tcall.response.clock

AbsDiff(a, b) == IF a < b THEN b - a ELSE a - b

\* C2: getCurrentTime fails with 'Time unavailable' if and only if useWebTime
\* is enabled, the network fetch fails and fallbackToSystemTime is disabled;
\* when the fetch fails and fallbackToSystemTime is enabled it returns the
\* local clock's time, and in every other case it returns a time.
C2_FailsIffNoFallback ==
  TimeDone =>
    /\ (tcall.result.kind = "throw")
          <=> (tcfg.useWebTime /\ TimeFetchFailed /\ ~tcfg.fallbackToSystemTime)
    /\ (tcfg.useWebTime /\ TimeFetchFailed /\ tcfg.fallbackToSystemTime)
          => (tcall.result.kind = "return" /\ tcall.result.value = TimeData(tclock))
    /\ (tcall.result.kind = "throw") \/ (tcall.result.kind = "return")

C2_Witness ==
  /\ TimeDone /\ tcall.result.kind = "throw"
  /\ tcfg.useWebTime /\ TimeFetchFailed /\ ~tcfg.fallbackToSystemTime

C5_ReturnedTimeInRange ==
  (TimeDone /\ tcall.result.kind = "return") =>
    /\ tcall.result.value.hours \in 0..23
    /\ tcall.result.value.minutes \in 0..59
    /\ tcall.result.value.seconds \in 0..59

C5_Witness ==
  /\ TimeDone /\ tcall.response.kind = "nodate"
  /\ tcall.result.kind = "return"

FitDone == fcall.pc = "done"

\* C8: a quote text no longer than the character budget is returned
\* unchanged, with no ellipsis marker added, whatever the token.
C8_FittingTextUnchanged ==
  (FitDone /\ Len(ftext) <= maxLength) => fcall.result = ftext

C8_Witness ==
  /\ FitDone /\ Len(ftext) = maxLength /\ fcall.result = ftext

\* C9: for a quote text longer than the budget, whatever the token and
\* whether the text holds it or not, the result is at most the budget plus
\* two ellipsis markers long.
C9_ResultLengthBounded ==
  (FitDone /\ Len(ftext) > maxLength) =>
    Len(fcall.result) <= maxLength + 2 * Len(Ellipsis)

C9_Witness ==
  /\ FitDone /\ Len(ftext) > maxLength
  /\ Len(fcall.result) = maxLength + 2 * Len(Ellipsis)

\* C10: for a quote text longer than the budget that holds the token, the
\* kept window holds the first occurrence of the token in full, whatever the
\* token's length and whether or not it contains spaces.
C10_TokenKeptWhole ==
  (FitDone /\ Len(ftext) > maxLength /\ fcall.timeIndex # -1) =>
    /\ fcall.window.startIndex <= fcall.timeIndex
    /\ fcall.timeIndex + Len(ftoken) <= fcall.window.endIndex

HighlightDone == fcall.pc = "highlighted"

IsMarker(e) == e = StrongOpen \/ e = StrongClose

\* the result with its markers taken out
Unmarked(h) == SelectSeq(h, LAMBDA e : ~IsMarker(e))

\* how many characters of the text stand before element k of the result
TextBefore(h, k) == Cardinality({j \in 1..(k - 1) : ~IsMarker(h[j])})

\* the indexes of the text a marker of the given kind stands before
MarkedAt(h, marker) == {TextBefore(h, k) : k \in {j \in 1..Len(h) : h[j] = marker}}

\* the indexes at which the token occurs in the text, letter case aside
Occurrences(text, token) ==
  LET lowerText == ToLowerCase(text)
      lowerToken == ToLowerCase(token)
  IN {i \in 0..(Len(text) - Len(token)) : OccursAt(lowerText, lowerToken, i)}

\* no closing marker without its opening one, none opened twice
MarkersPaired(h) ==
  /\ Cardinality({k \in 1..Len(h) : h[k] = StrongOpen})
       = Cardinality({k \in 1..Len(h) : h[k] = StrongClose})
  /\ \A k \in 1..Len(h) :
       LET opened == Cardinality({j \in 1..k : h[j] = StrongOpen})
           closed == Cardinality({j \in 1..k : h[j] = StrongClose})
       IN opened - closed \in {0, 1}

\* C11, as claimed: an opening marker stands before every occurrence of the
\* token in the text, letter case aside, and the text is otherwise unchanged.
C11_EveryOccurrenceWrapped ==
  HighlightDone =>
    /\ Unmarked(fcall.highlighted) = ftext
    /\ MarkedAt(fcall.highlighted, StrongOpen) = Occurrences(ftext, ftoken)

\* C11, amended: the occurrences are taken from left to right and an
\* occurrence that shares characters with one already wrapped is passed
\* over; each occurrence taken is wrapped on its own, in its own letter
\* case; the token's characters are matched literally; the rest of the text
\* is unchanged, and a text without the token is returned as it is.
C11_LeftmostOccurrencesWrapped ==
  HighlightDone =>
    LET h == fcall.highlighted
        opens == MarkedAt(h, StrongOpen)
        occurs == Occurrences(ftext, ftoken)
    IN
    /\ Unmarked(h) = ftext
    /\ MarkersPaired(h)
    /\ \A i \in 0..Len(ftext) :
         i \in opens <=>
           (i \in occurs /\ \A j \in opens : ~(i - Len(ftoken) < j /\ j < i))
    /\ MarkedAt(h, StrongClose) = {i + Len(ftoken) : i \in opens}
    /\ occurs = {} => h = ftext

\* the token wrapped twice, once in a letter case that is not the token's
C11_Witness ==
  /\ HighlightDone
  /\ Cardinality(MarkedAt(fcall.highlighted, StrongOpen)) = 2
  /\ \E i \in MarkedAt(fcall.highlighted, StrongOpen) :
       ~OccursAt(ftext, ftoken, i)

\* the kept text starts at the text's start or right after a space
StartsOnBoundary(text, startIndex) == startIndex = 0 \/ text[startIndex] = " "

\* the kept text ends at the text's end or right before a space
EndsOnBoundary(text, endIndex) == endIndex = Len(text) \/ text[endIndex + 1] = " "

FitTruncated == FitDone /\ Len(ftext) > maxLength

\* the window before its edges are moved to spaces
InitialWindow == IdealWindow(ftext, ftoken, fcall.timeIndex)

\* a space lies within the slack after the initial start, before the
\* initial end
SpaceNearStart(text, startIndex) ==
  \E k \in startIndex..(startIndex + BoundarySlack - 1) : k < Len(text) /\ text[k + 1] = " "

SpaceNearEnd(text, endIndex) ==
  \E k \in (endIndex - BoundarySlack + 1)..endIndex :
    k >= 0 /\ k < Len(text) /\ text[k + 1] = " "

\* C19, as claimed: whenever the text is cut, with the token found or not and
\* with a space near the initial edge or not, the kept text starts at the
\* text's start or right after a space and ends at the text's end or right
\* before a space.
C19_EdgesOnWordBoundaries ==
  FitTruncated =>
    IF fcall.timeIndex = -1
    THEN EndsOnBoundary(ftext, maxLength - 3)
    ELSE /\ StartsOnBoundary(ftext, fcall.window.startIndex)
         /\ EndsOnBoundary(ftext, fcall.window.endIndex)

\* C19, amended: with the token found, an edge that is not the text's own is
\* moved to a word boundary when a space lies within 15 characters of it
\* (after the initial start, before the initial end) and stays where the
\* window put it otherwise; with the token not found the text is cut after
\* maxLength - 3 characters wherever that falls.
C19_EdgesSnappedWithinSlack ==
  FitTruncated =>
    IF fcall.timeIndex = -1
    THEN fcall.result = SubSeq(ftext, 1, maxLength - 3) \o Ellipsis
    ELSE LET w0 == InitialWindow
             w == fcall.window
         IN /\ IF w0.startIndex > 0 /\ SpaceNearStart(ftext, w0.startIndex)
               THEN /\ StartsOnBoundary(ftext, w.startIndex)
                    /\ w.startIndex \in (w0.startIndex + 1)..(w0.startIndex + BoundarySlack)
               ELSE w.startIndex = w0.startIndex
            /\ IF w0.endIndex < Len(ftext) /\ SpaceNearEnd(ftext, w0.endIndex)
               THEN /\ EndsOnBoundary(ftext, w.endIndex)
                    /\ w.endIndex \in (w0.endIndex - BoundarySlack + 1)..w0.endIndex
               ELSE w.endIndex = w0.endIndex

\* the start was moved to a word boundary and the end, with no space near
\* it, cuts a word
C19_Witness ==
  /\ FitTruncated /\ fcall.timeIndex # -1
  /\ fcall.window.startIndex # InitialWindow.startIndex
  /\ StartsOnBoundary(ftext, fcall.window.startIndex)
  /\ ~EndsOnBoundary(ftext, fcall.window.endIndex)

\* the window the result was cut from: the one around the token, or the
\* first maxLength - 3 characters when the token is not found
CutWindow ==
  IF fcall.timeIndex = -1
  THEN [startIndex |-> 0, endIndex |-> maxLength - 3]
  ELSE fcall.window

\* C20: for every over-budget text the result is the characters of the text
\* from the kept window's start to its end, in one piece, with an ellipsis
\* marker before them exactly when the window does not begin at the text's
\* start and an ellipsis marker after them exactly when the window does not
\* reach the text's end.
C20_MarkersWhereTextIsCut ==
  FitTruncated =>
    LET w == CutWindow
    IN /\ w.startIndex <= w.endIndex
       /\ fcall.result =
            (IF w.startIndex # 0 THEN Ellipsis ELSE <<>>)
              \o SubSeq(ftext, w.startIndex + 1, w.endIndex)
              \o (IF w.endIndex # Len(ftext) THEN Ellipsis ELSE <<>>)

\* a text cut at its start only: the window reaches the text's end
C20_Witness ==
  /\ FitTruncated /\ fcall.timeIndex # -1
  /\ fcall.window.startIndex > 0
  /\ fcall.window.endIndex = Len(ftext)
  /\ SubSeq(fcall.result, 1, 3) = Ellipsis
  /\ fcall.result[Len(fcall.result)] = ftext[Len(ftext)]

(***************************************************************************)
(* The application's claims                                                *)
(***************************************************************************)

LoadFailed == load.status \in {"http404", "reject", "badjson"}

\* C1: only a dataset load failure puts the application into the fatal
\* error state; a failed time resolution, at startup or in a later refresh,
\* never shows the error banner and never ends a call unhandled, so that the
\* refresh goes on.
C1_OnlyLoadFailureIsFatal ==
  /\ display.container = "error" => LoadFailed
  /\ unhandled = {}

\* the lookups made and not yet rendered: the time each was made for and
\* the record it found
Lookups ==
  { [resolved |-> tasks[i].resolved, matched |-> tasks[i].matched] :
      i \in {j \in 1..Len(tasks) : tasks[j].at = "updateQuote.updateDateTimeDisplay"} }
    \cup { [resolved |-> timers[i].resolved, matched |-> timers[i].matched] :
             i \in {j \in 1..Len(timers) : timers[j].kind = "fade"} }

\* "HH:MM", both numbers written with two digits
TwoDigits(n) == <<DigitChar(n \div 10), DigitChar(n % 10)>>

PaddedKey(time) == TwoDigits(time.hours) \o <<":">> \o TwoDigits(time.minutes)

\* C6: the lookup for a resolved time returns the first record, in dataset
\* order, whose time is the zero-padded "HH:MM" of the resolved hours and
\* minutes, and none when no record has that time; and the quote table is
\* the one that was loaded.
C6_ExactFirstMatch ==
  /\ \A l \in Lookups :
       LET withKey == {j \in 1..Len(quotes) : quotes[j].time = PaddedKey(l.resolved)} IN
       /\ l.matched = 0 <=> withKey = {}
       /\ l.matched # 0 => (l.matched \in withKey /\ \A j \in withKey : l.matched <= j)
  /\ load.status = "ok" => quotes = load.data

\* a lookup that found the first of two records with the same time
C6_Witness ==
  \E l \in Lookups :
    /\ l.matched = 1
    /\ Cardinality({j \in 1..Len(quotes) : quotes[j].time = PaddedKey(l.resolved)}) = 2

\* C7: a failed dataset load ends startup in the error display: the banner
\* is shown, no second load is requested, and no quote refresh, no
\* minute-alignment timer and no weather refresh is started or scheduled.
C7_FailedLoadIsFatal ==
  LoadFailed =>
    /\ display.container = "error"
    /\ load.requests = 1
    /\ quotes = << >>
    /\ tasks = << >>
    /\ timers = << >>
    /\ cycles = 0
    /\ display.weather = "initial"

C7_Witness == load.status = "http404" /\ display.container = "error"

WeatherTasks == {i \in 1..Len(tasks) : tasks[i].at = "updateWeatherDisplay"}

\* a weather request is answered in this step, and it failed
WeatherFailureHandled ==
  /\ Cardinality(WeatherTasks') < Cardinality(WeatherTasks)
  /\ weather'.answer = "failed"

\* the weather requests sent are the one of startup and one for every period
\* of weatherUpdateInterval that has passed since the interval was set
NoEarlyWeatherRetry ==
  weather.requests <=
    (IF weather.intervalSet = -1 THEN 1
     ELSE 1 + (now - weather.intervalSet) \div weatherUpdateInterval)

\* C12: a failed weather request (network error, non-ok status, no current
\* weather in the answer) shows the weatherUnavailable placeholder in the
\* weather field and changes nothing else: not the container (no fatal
\* error), not the quote, author and datetime fields, not the timers; and the
\* next request is sent no earlier than the next tick of the weather interval.
C12_WeatherFailureConfined ==
  /\ [](/\ (weather.answer = "failed" /\ WeatherTasks = {})
             => display.weather = "weatherUnavailable"
        /\ NoEarlyWeatherRetry)
  /\ [][WeatherFailureHandled =>
          /\ display' = [display EXCEPT !.weather = "weatherUnavailable"]
          /\ timers' = timers
          /\ quotes' = quotes
          /\ cycles' = cycles
          /\ unhandled' = unhandled
          /\ weather'.requests = weather.requests]_vars

\* the request sent at the first tick of the interval failed as well
C12_Witness ==
  /\ weather.requests = 2 /\ weather.answer = "failed" /\ WeatherTasks = {}
  /\ display.weather = "weatherUnavailable"
  /\ display.container = "clock"
  /\ now >= weather.intervalSet + weatherUpdateInterval

NoQuoteTasks == {i \in 1..Len(tasks) : tasks[i].at = "noQuote.getCurrentTime"}

\* the render of a cycle whose lookup found no record ends in this step
NoQuoteRenderEnds == Cardinality(NoQuoteTasks') < Cardinality(NoQuoteTasks)

\* C13: the render of a cycle whose lookup found no record ends with the
\* no-quote message and the noSource attribution written and both areas
\* visible again; it shows no error banner, ends in no unhandled rejection
\* and leaves the timers of the periodic refresh as they are.
C13_NoQuoteIsDisplayed ==
  [][NoQuoteRenderEnds =>
       /\ display'.quote.kind = "noQuote"
       /\ display'.author.kind = "noSource"
       /\ display'.opacity = 1
       /\ display'.container = display.container
       /\ unhandled' = unhandled
       /\ timers' = timers]_vars

\* the periodic refreshes that have started and not yet resolved their time
PeriodicStarts ==
  {i \in 1..Len(tasks) : tasks[i].at = "findQuoteForCurrentTime" /\ ~tasks[i].byInit}

PeriodicTimers == {i \in 1..Len(timers) : timers[i].kind \in {"first", "interval"}}

\* the seconds the clock of the given source reads when the local clock
\* reads localTime
SecondsRead(from, localTime) ==
  IF from = "web" THEN (localTime.seconds + skew) % 60 ELSE localTime.seconds

\* the one-shot timer is set (60 - seconds) after the resolution, a delay of
\* 1 to 60 seconds
FirstRefreshScheduled ==
  \A i \in 1..Len(timers) :
    timers[i].kind = "first" =>
      /\ timers[i].due = alignment.setAt + (60 - alignment.seconds)
      /\ timers[i].due - alignment.setAt \in 1..60

\* a periodic refresh starts when its timer is due, and the next one is due
\* exactly 60 seconds later
RefreshPeriodExact ==
  (cycles' = cycles + 1 /\ cycles >= 1) =>
    /\ \E i \in PeriodicTimers : timers[i].due = now
    /\ \E j \in 1..Len(timers') :
         timers'[j].kind = "interval" /\ timers'[j].due = now + quoteInterval

CycleOpen(k) ==
  \/ \E i \in 1..Len(tasks) :
       /\ tasks[i].id = k
       /\ tasks[i].at \in {"updateQuote.updateDateTimeDisplay", "noQuote.getCurrentTime"}
  \/ \E i \in 1..Len(timers) : timers[i].kind = "fade" /\ timers[i].id = k

\* C15: no refresh cycle starts while an earlier cycle is between its time
\* resolution and its render, the first periodic cycle after the startup
\* cycle included; and the quote area is written by the cycles in the order
\* they started, so that it never goes back to an earlier cycle's content.
C15_CyclesSerialized ==
  /\ [](\A i \in 1..Len(tasks) :
          tasks[i].at = "findQuoteForCurrentTime" =>
            \A k \in 1..(tasks[i].id - 1) : ~CycleOpen(k))
  /\ [][display'.quote.cycle >= display.quote.cycle]_vars

TimeResolved(time) ==
  time.hours \in 0..23 /\ time.minutes \in 0..59 /\ time.seconds \in 0..59

\* the cycle has looked up the record for the time it resolved, and has
\* written nothing yet
LookedUp(id, resolved, matched) ==
  /\ TimeResolved(resolved)
  /\ matched = FindQuote(quotes, FormatHHMM(resolved.hours, resolved.minutes))
  /\ display.quote.cycle # id

\* where each cycle stands: before its time is resolved nothing is looked
\* up or written; after it, the record is the one for the resolved time;
\* the render without a record follows a lookup that found none
StagesInOrder ==
  /\ \A i \in 1..Len(tasks) :
       /\ tasks[i].at = "findQuoteForCurrentTime" =>
            /\ tasks[i].resolved = InvalidTimeData
            /\ tasks[i].matched = 0
            /\ display.quote.cycle # tasks[i].id
       /\ tasks[i].at = "updateQuote.updateDateTimeDisplay" =>
            LookedUp(tasks[i].id, tasks[i].resolved, tasks[i].matched)
       /\ tasks[i].at = "noQuote.getCurrentTime" =>
            /\ tasks[i].matched = 0
            /\ LookedUp(tasks[i].id, tasks[i].resolved, 0)
  /\ \A i \in 1..Len(timers) :
       timers[i].kind = "fade" =>
         LookedUp(timers[i].id, timers[i].resolved, timers[i].matched)

\* what is written for a record: its text fitted, then highlighted
FittedAndHighlighted(q) ==
  <<QuotationMark>>
    \o highlightTimeString(smartTruncateQuote(q.quote, q.timeString), q.timeString)
    \o <<QuotationMark>>

\* the quote area is written by a cycle whose render is due, with the record
\* its lookup found, fitted and highlighted, or with the no-quote message
\* when it found none
WrittenLast ==
  display'.quote # display.quote =>
    \/ \E i \in 1..Len(timers) :
         /\ timers[i].kind = "fade" /\ timers[i].due <= now
         /\ timers[i].id = display'.quote.cycle
         /\ timers[i].matched # 0
         /\ display'.quote.kind = "quote"
         /\ display'.quote.html = FittedAndHighlighted(quotes[timers[i].matched])
    \/ \E i \in 1..Len(tasks) :
         /\ tasks[i].at = "noQuote.getCurrentTime"
         /\ tasks[i].id = display'.quote.cycle
         /\ display'.quote.kind = "noQuote"

\* C16: within a refresh cycle the time of the lookup is resolved before the
\* lookup, the lookup is made before the text is fitted, and the text is
\* fitted and highlighted before the quote area is written; no stage uses
\* what a later stage produces.
C16_StagesInOrder == []StagesInOrder /\ [][WrittenLast]_vars

\* a cycle has written a quote that was cut at its start and highlighted
C16_Witness ==
  /\ display.quote.kind = "quote"
  /\ display.quote.cycle >= 2
  /\ SubSeq(display.quote.html, 2, 4) = Ellipsis
  /\ \E k \in 1..Len(display.quote.html) : display.quote.html[k] = StrongOpen

\* C17: the periodic quote refresh is scheduled once, and only after the
\* initial quote, the initial datetime and the initial weather have been
\* written to their areas (a placeholder counts as written).
C17_RunningAfterInitialDisplay ==
  /\ Cardinality(PeriodicTimers) <= 1
  /\ PeriodicTimers # {} =>
       /\ display.quote.kind # "initial"
       /\ display.datetime.kind # "initial"
       /\ display.weather \in {"shown", "weatherUnavailable"}

FadeTimers == {i \in 1..Len(timers) : timers[i].kind = "fade"}

\* a render is still to come: its timer is pending, or its callback waits
\* for the time of the no-quote message
RenderPending == FadeTimers # {} \/ NoQuoteTasks # {}

\* C18: the quote and author areas are hidden only while a render that will
\* show them again is still to come, a cycle whose time resolution fails
\* included; the render runs no earlier than fadeOutDuration after the
\* areas were hidden; and the quote area's content changes only while the
\* areas are hidden.
C18_FadeOutEndsInFadeIn ==
  /\ [](display.opacity = 0 => RenderPending)
  /\ [][Cardinality(FadeTimers') < Cardinality(FadeTimers) =>
          \E i \in FadeTimers : timers[i].due <= now]_vars
  /\ [][display'.quote # display.quote => display.opacity = 0]_vars

\* the step in which a cycle writes the datetime field: updateQuote sets its
\* render timer in the same step
DatetimeWrittenByCycle ==
  /\ Len(timers') > Len(timers)
  /\ timers'[Len(timers) + 1].kind = "fade"

\* the time the cycle that set the newest render timer looked its quote up for
LookupOfNewRender == timers'[Len(timers) + 1].resolved

DatetimeShowsLookupTime ==
  (DatetimeWrittenByCycle /\ display'.datetime.kind = "time") =>
    display'.datetime.timeStr = CurrentTimeString(LookupOfNewRender)

\* the step in which a cycle writes its no-quote message
NoQuoteMessageWritten ==
  /\ display'.quote # display.quote
  /\ display'.quote.kind = "noQuote"

NoQuoteMessageShowsLookupTime ==
  NoQuoteMessageWritten =>
    \E i \in 1..Len(tasks) :
      /\ tasks[i].at = "noQuote.getCurrentTime"
      /\ tasks[i].id = display'.quote.cycle
      /\ display'.quote.html =
           NoQuoteShown(display, tasks[i].resolved, tasks[i].id).quote.html

\* C21: within one refresh cycle the "HH:MM" written to the datetime field
\* and the time written in the no-quote message both equal the time string
\* the cycle's quote lookup was made with.
C21_ShownTimesAreLookupTime ==
  /\ [][DatetimeShowsLookupTime]_vars
  /\ [][NoQuoteMessageShowsLookupTime]_vars

(***************************************************************************)
(* The specifications                                                      *)
(***************************************************************************)

TimeInit == InitTime /\ IdleFit /\ IdleApp

SpecTime == TimeInit /\ [][NextTime]_vars

FitInit == InitFit /\ IdleTime /\ IdleApp

Init == InitApp /\ IdleTime /\ IdleFit

Next == NextApp

Spec == Init /\ [][Next]_vars

SpecFit == FitInit /\ [][NextFit]_vars

=============================================================================
